---- MODULE Spec2Model ----
(***************************************************************************)
(* FinSight (src/app.py): one run of the Streamlit script is modelled as   *)
(* a sequence of steps (build the portfolio, fetch market data and compute *)
(* returns, key metrics, fundamentals, single-asset analysis); a widget    *)
(* interaction re-runs the script from the top.                            *)
(*                                                                         *)
(* Numbers.  Returns are fixed-point integers in units of 1/SCALE.  A      *)
(* statistic is an exact value [kind, sgn, num, den]: kind "num" is the    *)
(* rational num/den (or, where a square root is involved, sgn*sqrt(num/    *)
(* den)); kind "nan" is NaN, kind "inf" is sgn*infinity.  A nullable cell  *)
(* of a table is <<>> (NaN / missing) or <<v>>.                            *)
(*                                                                         *)
(* Random numbers.  numpy's generator is replaced by a 16-bit linear       *)
(* congruential generator: what the model keeps is that every draw is a    *)
(* function of the generator's state, that np.random.seed sets that state, *)
(* and that the state is global to the process.                            *)
(***************************************************************************)
EXTENDS Integers, Sequences, FiniteSets, TLC

VARIABLES
    df,            \* the fundamentals table: a sequence of rows
    num_assets,    \* the slider's value in this run
    rng,           \* state of the process-wide numpy generator
    portfolio,     \* sequence of holdings [Ticker, Shares, EntryPrice]; <<>> before it is built
    data,          \* the provider's response of this run
    returns,       \* the returns DataFrame [cols, rows, val]
    keyMetrics,    \* <<>> or <<record of the four portfolio statistics>>
    fund,          \* <<>> or <<record of the fundamentals block>>
    ticker_returns,\* the series the single-asset block works on
    asset,         \* <<>> or <<record of the single-asset block>>
    pc,            \* position of the script
    error,         \* "" or what stopped the run
    firstBuilt     \* history: <<>> or <<[n, pf, again]>>: the first portfolio built in this
                   \* process, and whether a later run built one for the same n

vars == <<df, num_assets, rng, portfolio, data, returns, keyMetrics, fund,
          ticker_returns, asset, pc, error, firstBuilt>>

(***************************************************************************)
(* Program constants                                                       *)
(***************************************************************************)
SLIDER_MIN == 5
SLIDER_MAX == 50
SLIDER_DEFAULT == 20
SEED == 42
SHARES_LOW == 100
SHARES_HIGH == 10000
PRICE_LOW == 5
PRICE_HIGH == 300
TRADING_DAYS == 252
RISK_FREE_PCT == 2
CONFIDENCE_PCT == 95
TOP_N == 5
METRICS == {"Total Revenue", "Net Income", "Total Assets", "Long-Term Debt"}

(***************************************************************************)
(* Bounds of the model                                                     *)
(***************************************************************************)
MaxRows == 6
MaxSlider == 7
MaxDays == 3
MaxLen == 5
SCALE == 1000

TickerOrder == <<"A", "B", "C", "D", "E", "F">>
Tickers == {TickerOrder[i] : i \in 1..Len(TickerOrder)}
TickerRank(t) == CHOOSE i \in 1..Len(TickerOrder) : TickerOrder[i] = t

(***************************************************************************)
(* Generic helpers                                                         *)
(***************************************************************************)
NaN == <<>>
Range(s) == {s[i] : i \in 1..Len(s)}

RECURSIVE SumSeq(_)
SumSeq(s) == IF s = <<>> THEN 0 ELSE s[1] + SumSeq(Tail(s))

SumSq(s) == SumSeq([i \in 1..Len(s) |-> s[i] * s[i]])

Sgn(x) == IF x > 0 THEN 1 ELSE IF x < 0 THEN -1 ELSE 0

StatNaN == [kind |-> "nan", sgn |-> 0, num |-> 0, den |-> 1, n |-> 0]
StatInf(s) == [kind |-> "inf", sgn |-> s, num |-> 0, den |-> 1, n |-> 0]

(***************************************************************************)
(* The random generator                                                    *)
(***************************************************************************)
LcgNext(s) == (s * 25173 + 13849) % 65536

RECURSIVE LcgIter(_, _)
LcgIter(s, k) == IF k = 0 THEN s ELSE LcgIter(LcgNext(s), k - 1)

\* an integer in 0..k-1 read off a generator state
RandBelow(s, k) == (s \div 16) % k

\* np.random.seed(seed): the state afterwards, whatever it was before
Unseeded(cur, seed) == cur
np_random_seed(cur, seed) == seed % 65536

\* numpy's shuffle of 0..n-1 (Fisher-Yates from the top), on 1-based positions:
\* step i draws j in 1..i and swaps x[i], x[j].  Returns the permutation after
\* steps n, n-1, .., 2, drawing from the states that follow s.
RECURSIVE Shuffle(_, _, _)
Shuffle(x, i, s) ==
    IF i <= 1 THEN x
    ELSE LET s1 == LcgNext(s)
             j  == 1 + RandBelow(s1, i)
             y  == [x EXCEPT ![i] = x[j], ![j] = x[i]]
         IN  Shuffle(y, i - 1, s1)

ShuffleDraws(n) == IF n <= 1 THEN 0 ELSE n - 1

\* Series.sample(n): rows at the first n places of a permutation of the table
Sample(col, n, s) ==
    LET perm == Shuffle([i \in 1..Len(col) |-> i], Len(col), s)
    IN  [i \in 1..n |-> col[perm[i]]]

\* np.random.randint(low, high, size=n) from state s
RandInt(low, high, n, s) ==
    [i \in 1..n |-> low + RandBelow(LcgIter(s, i), high - low)]

\* np.random.uniform(low, high, size=n).round(2) from state s, in cents
RandUniformCents(low, high, n, s) ==
    [i \in 1..n |->
        LET u == LcgIter(s, i)     \* u / 65536 is the uniform draw in [0, 1)
        IN  100 * low + (u * 100 * (high - low) + 32768) \div 65536]

(***************************************************************************)
(* Portfolio construction (lines 39-45)                                    *)
(***************************************************************************)
TickerColumn(table) == [i \in 1..Len(table) |-> table[i].Ticker]

BuildTruncated(table, n, s0) ==
    LET m  == IF n <= Len(table) THEN n ELSE Len(table)
        tk == Sample(TickerColumn(table), m, s0)
        s1 == LcgIter(s0, ShuffleDraws(Len(table)))
        sh == RandInt(SHARES_LOW, SHARES_HIGH, m, s1)
        s2 == LcgIter(s1, m)
        ep == RandUniformCents(PRICE_LOW, PRICE_HIGH, m, s2)
    IN  [pf  |-> [i \in 1..m |-> [Ticker |-> tk[i], Shares |-> sh[i], EntryPrice |-> ep[i]]],
         rng |-> LcgIter(s2, m),
         ok  |-> TRUE]

\* the DataFrame built at lines 41-45 from generator state s0, and the state left;
\* ok is FALSE when Series.sample raises (a sample larger than the population)
BuildFrom(table, n, s0) ==
    IF n > Len(table)
    THEN [pf |-> <<>>, rng |-> s0, ok |-> FALSE]
    ELSE LET tk == Sample(TickerColumn(table), n, s0)
             s1 == LcgIter(s0, ShuffleDraws(Len(table)))
             sh == RandInt(SHARES_LOW, SHARES_HIGH, n, s1)
             s2 == LcgIter(s1, n)
             ep == RandUniformCents(PRICE_LOW, PRICE_HIGH, n, s2)
         IN  [pf  |-> [i \in 1..n |-> [Ticker |-> tk[i], Shares |-> sh[i], EntryPrice |-> ep[i]]],
              rng |-> LcgIter(s2, n),
              ok  |-> TRUE]

PortfolioTickers(pf) == [i \in 1..Len(pf) |-> pf[i].Ticker]

NoReturns == [cols |-> <<>>, rows |-> 0, val |-> <<>>]
NoData == [present |-> {}, days |-> 0, close |-> <<>>]

RunReset ==
    /\ portfolio' = <<>>
    /\ data' = NoData
    /\ returns' = NoReturns
    /\ keyMetrics' = <<>>
    /\ fund' = <<>>
    /\ ticker_returns' = <<>>
    /\ asset' = <<>>
    /\ error' = ""

\* lines 40-45 when the sample can be taken
BuildPortfolio ==
    /\ pc = "build"
    /\ LET b == BuildFrom(df, num_assets, np_random_seed(rng, SEED))
       IN  /\ b.ok
           /\ portfolio' = b.pf
           /\ rng' = b.rng
           /\ firstBuilt' = IF firstBuilt = <<>>
                            THEN <<[n |-> num_assets, pf |-> b.pf, again |-> FALSE]>>
                            ELSE IF firstBuilt[1].n = num_assets
                            THEN <<[firstBuilt[1] EXCEPT !.again = TRUE]>>
                            ELSE firstBuilt
    /\ pc' = "fetch"
    /\ UNCHANGED <<df, num_assets, data, returns, keyMetrics, fund,
                   ticker_returns, asset, error>>

\* lines 40-42 when Series.sample raises ValueError: the script dies there
BuildRaises ==
    /\ pc = "build"
    /\ LET b == BuildFrom(df, num_assets, np_random_seed(rng, SEED))
       IN  /\ ~b.ok
           /\ rng' = b.rng
    /\ pc' = "crashed"
    /\ error' = "ValueError"
    /\ UNCHANGED <<df, num_assets, portfolio, data, returns, keyMetrics, fund,
                   ticker_returns, asset, firstBuilt>>

\* a widget interaction: Streamlit abandons the current run and runs the script
\* again from the top, with the slider at n; the process (and its generator) lives on.
\* Slider values above MaxSlider are left out: on tables of at most MaxRows rows
\* they all behave as MaxSlider does.
Rerun ==
    /\ pc # "build"
    /\ \E n \in SLIDER_MIN..SLIDER_MAX : n <= MaxSlider /\ num_assets' = n
    /\ pc' = "build"
    /\ RunReset
    /\ UNCHANGED <<df, rng, firstBuilt>>

(***************************************************************************)
(* Risk analytics functions (lines 48-53)                                  *)
(***************************************************************************)
\* the non-NaN entries of a series of cells, as integers (pandas skips NaN in
\* mean() and std(); Series.dropna())
RECURSIVE Defined(_)
Defined(s) ==
    IF s = <<>> THEN <<>>
    ELSE IF s[1] = <<>> THEN Defined(Tail(s))
    ELSE <<s[1][1]>> \o Defined(Tail(s))

HasNaN(s) == \E i \in 1..Len(s) : s[i] = <<>>

\* n * sum(x^2) - sum(x)^2 = n * (n - 1) * variance (ddof = 1), in units of 1/den^2
VarNumer(x) == Len(x) * SumSq(x) - SumSeq(x) * SumSeq(x)

\* numerator of mean(returns - risk_free_rate/252) over 100 * 252 * n * den
ExcessNumer(x, den) ==
    100 * TRADING_DAYS * SumSeq(x) - RISK_FREE_PCT * Len(x) * den

\* calculate_sharpe(returns) for a series of cells in units of 1/den:
\*   sqrt(252) * excess.mean() / returns.std()
\* float division: x/NaN and NaN/x are NaN, 0/0 is NaN, x/0 is +-inf.
\* A finite result is sgn * sqrt(252 * (n-1) / n) * |num| / (100 * 252 * sqrt(den)),
\* kept as its ingredients num = ExcessNumer, den = VarNumer, n.
calculate_sharpe(s, den) ==
    LET x == Defined(s)
        n == Len(x)
        e == ExcessNumer(x, den)
        v == VarNumer(x)
    IN  IF n < 2 THEN StatNaN
        ELSE IF v = 0 THEN (IF e = 0 THEN StatNaN ELSE StatInf(Sgn(e)))
        ELSE [kind |-> "num", sgn |-> Sgn(e), num |-> e, den |-> v, n |-> n]

\* insertion of v into an ascending sequence
RECURSIVE InsertSorted(_, _)
InsertSorted(v, s) ==
    IF s = <<>> THEN <<v>>
    ELSE IF v <= s[1] THEN <<v>> \o s
    ELSE <<s[1]>> \o InsertSorted(v, Tail(s))

RECURSIVE SortAsc(_)
SortAsc(s) == IF s = <<>> THEN <<>> ELSE InsertSorted(s[1], SortAsc(Tail(s)))

\* np.percentile(a, q) with q = 100 - confidence (in percent), linear
\* interpolation: virtual index q/100 * (n-1) into the sorted array.
\* The result is in units of 1/(100 * den): num = 100 * value.
PercentileLower(x, conf) ==
    LET a == SortAsc(x)
        r == (100 - conf) * (Len(a) - 1)
    IN  100 * a[1 + r \div 100]
Percentile(x, conf) ==
    LET a  == SortAsc(x)
        r  == (100 - conf) * (Len(a) - 1)
        lo == 1 + r \div 100
        hi == IF lo < Len(a) THEN lo + 1 ELSE lo
    IN  100 * a[lo] + (r % 100) * (a[hi] - a[lo])

\* calculate_var(returns, confidence_level) on a series of cells: np.percentile
\* does not skip NaN, any NaN in the input makes the result NaN
calculate_var(s, conf) ==
    IF s = <<>> \/ HasNaN(s) THEN StatNaN
    ELSE LET v == Percentile(Defined(s), conf)
         IN  [kind |-> "num", sgn |-> Sgn(v), num |-> v, den |-> 100, n |-> Len(s)]

\* mean() * 252 of a series of cells: 252 * sum / n, in units of 1/den
AnnualizedReturn(s) ==
    LET x == Defined(s)
    IN  IF x = <<>> THEN StatNaN
        ELSE [kind |-> "num", sgn |-> Sgn(SumSeq(x)),
              num |-> TRADING_DAYS * SumSeq(x), den |-> Len(x), n |-> Len(x)]

\* std() * sqrt(252) of a series of cells: sqrt(252 * num / den), in units of 1/den
AnnualizedVolatility(s) ==
    LET x == Defined(s)
    IN  IF Len(x) < 2 THEN StatNaN
        ELSE [kind |-> "num", sgn |-> Sgn(VarNumer(x)),
              num |-> VarNumer(x), den |-> Len(x) * (Len(x) - 1), n |-> Len(x)]

(***************************************************************************)
(* Market data and returns (lines 57-80)                                   *)
(***************************************************************************)
\* closing-price paths of d days a ticker of a response may have
PricePaths(d) ==
    {[i \in 1..d |-> 10],
     [i \in 1..d |-> IF i % 2 = 1 THEN 10 ELSE 20],
     [i \in 1..d |-> 10 * i]}

\* what yf.download may answer for the requested tickers: any subset of them,
\* on a common calendar of 0..MaxDays days
Responses(requested) ==
    UNION {{[present |-> P, days |-> d, close |-> c] : c \in [P -> PricePaths(d)]}
           : P \in SUBSET requested, d \in 0..MaxDays}

\* Series.pct_change(): NaN first, then price[t]/price[t-1] - 1 in units of 1/SCALE
pct_change(p) ==
    [i \in 1..Len(p) |->
        IF i = 1 THEN NaN ELSE <<(p[i] * SCALE) \div p[i - 1] - SCALE>>]

\* the tickers of a sequence, each once, in order of first appearance
RECURSIVE FirstSeen(_, _)
FirstSeen(ts, seen) ==
    IF ts = <<>> THEN <<>>
    ELSE IF ts[1] \in seen THEN FirstSeen(Tail(ts), seen)
    ELSE <<ts[1]>> \o FirstSeen(Tail(ts), seen \cup {ts[1]})

KeepPresent(ts, present) == SelectSeq(ts, LAMBDA t : t \in present)

\* lines 68-72: one column per portfolio ticker found in the response
ReturnsKeepingAll(pf, resp) ==
    LET cols == FirstSeen(PortfolioTickers(pf), {})
    IN  [cols |-> cols,
         rows |-> resp.days,
         val  |-> [t \in Range(cols) |->
                     IF t \in resp.present THEN pct_change(resp.close[t])
                     ELSE [i \in 1..resp.days |-> NaN]]]
ReturnsShareWeighted(pf, resp) ==
    LET cols  == KeepPresent(FirstSeen(PortfolioTickers(pf), {}), resp.present)
        sh(t) == 1 + (pf[CHOOSE i \in 1..Len(pf) : pf[i].Ticker = t].Shares % 3)
    IN  [cols |-> cols,
         rows |-> IF cols = <<>> THEN 0 ELSE resp.days,
         val  |-> [t \in Range(cols) |->
                     [i \in 1..resp.days |->
                        IF i = 1 THEN NaN
                        ELSE <<sh(t) * pct_change(resp.close[t])[i][1]>>]]]
ComputeReturns(pf, resp) ==
    LET cols == KeepPresent(FirstSeen(PortfolioTickers(pf), {}), resp.present)
    IN  [cols |-> cols,
         rows |-> IF cols = <<>> THEN 0 ELSE resp.days,
         val  |-> [t \in Range(cols) |-> pct_change(resp.close[t])]]

\* DataFrame.empty: no column or no row
IsEmpty(r) == r.cols = <<>> \/ r.rows = 0

\* lines 57-80, the download answering: the returns table, or st.stop()
FetchMarketData ==
    /\ pc = "fetch"
    /\ \E resp \in Responses(Range(PortfolioTickers(portfolio))) :
          /\ data' = resp
          /\ returns' = ComputeReturns(portfolio, resp)
    /\ IF IsEmpty(returns')
       THEN pc' = "stopped" /\ error' = "NoData"
       ELSE pc' = "metrics" /\ error' = error
    /\ UNCHANGED <<df, num_assets, rng, portfolio, keyMetrics, fund,
                   ticker_returns, asset, firstBuilt>>

\* lines 78-80: the download raising; the handler reports and stops the run
FetchRaises ==
    /\ pc = "fetch"
    /\ pc' = "stopped"
    /\ error' = "FetchFailed"
    /\ UNCHANGED <<df, num_assets, rng, portfolio, data, returns, keyMetrics, fund,
                   ticker_returns, asset, firstBuilt>>

(***************************************************************************)
(* Key metrics (lines 94-103)                                              *)
(***************************************************************************)
\* returns.mean(axis=1): per row the mean of the non-NaN cells, NaN when there is
\* none.  Every column has its only NaN in the first row, so a row has either no
\* cell or one per column: the series is kept as row sums, in units of
\* 1/(SCALE * number of columns).
RowSum(r, i) ==
    LET cells == [k \in 1..Len(r.cols) |-> r.val[r.cols[k]][i]]
    IN  IF Defined(cells) = <<>> THEN NaN ELSE <<SumSeq(Defined(cells))>>

RowMeans(r) == [i \in 1..r.rows |-> RowSum(r, i)]
RowMeansDen(r) == SCALE * Len(r.cols)

KeyMetricsOf(r) ==
    [ret    |-> AnnualizedReturn(RowMeans(r)),
     vol    |-> AnnualizedVolatility(RowMeans(r)),
     sharpe |-> calculate_sharpe(RowMeans(r), RowMeansDen(r)),
     var    |-> calculate_var(RowMeans(r), CONFIDENCE_PCT),
     den    |-> RowMeansDen(r)]

KeyMetrics ==
    /\ pc = "metrics"
    /\ keyMetrics' = <<KeyMetricsOf(returns)>>
    /\ pc' = "fundamentals"
    /\ UNCHANGED <<df, num_assets, rng, portfolio, data, returns, fund,
                   ticker_returns, asset, error, firstBuilt>>

(***************************************************************************)
(* Fundamentals tables                                                     *)
(***************************************************************************)
\* a row whose Total Revenue is the cell c: Net Income is its negative, Total
\* Assets differs on every row, Long-Term Debt is missing
RowOf(t, c) ==
    [Ticker |-> t,
     Metric |-> [m \in METRICS |->
                   IF m = "Total Revenue" THEN c
                   ELSE IF m = "Net Income" THEN (IF c = <<>> THEN <<>> ELSE <<0 - c[1]>>)
                   ELSE IF m = "Total Assets" THEN (IF c = <<>> THEN <<>> ELSE <<c[1] + 10 * TickerRank(t)>>)
                   ELSE <<>>]]

\* ticker columns of up to MaxRows rows, in file order sorted by ticker, a ticker
\* possibly on several rows (the code reads any CSV and keeps every row)
IsSortedCol(c) == \A i \in 1..(Len(c) - 1) : TickerRank(c[i]) <= TickerRank(c[i + 1])

BuildTables ==
    UNION {{[i \in 1..n |-> RowOf(c[i], <<i>>)] : c \in {c \in [1..n -> Tickers] : IsSortedCol(c)}}
           : n \in 0..MaxRows}

(***************************************************************************)
(* Fundamentals block (lines 105-141)                                      *)
(***************************************************************************)
\* portfolio.merge(df[...], left_on='Ticker', right_on='Ticker Symbol', how='left'):
\* per holding, in portfolio order, one row per table row with its ticker
RECURSIVE MatchRows(_, _, _)
MatchRows(h, table, m) ==
    IF table = <<>> THEN <<>>
    ELSE (IF table[1].Ticker = h.Ticker
          THEN <<[Ticker |-> h.Ticker, Shares |-> h.Shares, val |-> table[1].Metric[m]]>>
          ELSE <<>>) \o MatchRows(h, Tail(table), m)

RECURSIVE Merge(_, _, _)
Merge(pf, table, m) ==
    IF pf = <<>> THEN <<>>
    ELSE (IF MatchRows(pf[1], table, m) = <<>>
          THEN <<[Ticker |-> pf[1].Ticker, Shares |-> pf[1].Shares, val |-> NaN]>>
          ELSE MatchRows(pf[1], table, m)) \o Merge(Tail(pf), table, m)

TotalShares(rows) == SumSeq([i \in 1..Len(rows) |-> rows[i].Shares])

\* line 131: (metric * Weight).sum(), the NaN products skipped by sum();
\* Weight is Shares / Shares.sum() over all merged rows.  num/den, exact.
WeightedMetric(rows) ==
    [num |-> SumSeq([i \in 1..Len(rows) |->
                IF rows[i].val = <<>> THEN 0 ELSE rows[i].val[1] * rows[i].Shares]),
     den |-> TotalShares(rows)]

\* sort_values(metric, ascending=False): values descending, NaN rows last in their
\* original order; the default kind ('quicksort') is not stable, so rows with equal
\* values may come out in any order.  The set of row orders the sort may return.
Largest(rows, S) == {i \in S : \A j \in S : rows[j].val[1] <= rows[i].val[1]}

RECURSIVE Descending(_, _)
Descending(rows, S) ==
    IF S = {} THEN {<<>>}
    ELSE UNION {{<<i>> \o o : o \in Descending(rows, S \ {i})} : i \in Largest(rows, S)}

NaNRows(rows) == SelectSeq([i \in 1..Len(rows) |-> i], LAMBDA i : rows[i].val = <<>>)

SortOrders(rows) ==
    {o \o NaNRows(rows) : o \in Descending(rows, {i \in 1..Len(rows) : rows[i].val # <<>>})}

\* .head(n)
head(s, n) == SubSeq(s, 1, IF Len(s) < n THEN Len(s) ELSE n)

TopRows(rows, order) ==
    [k \in 1..Len(head(order, TOP_N)) |->
        [Ticker |-> rows[order[k]].Ticker, val |-> rows[order[k]].val]]

Fundamentals ==
    /\ pc = "fundamentals"
    /\ \E m \in METRICS :
         LET rows == Merge(portfolio, df, m)
         IN  IF rows # <<>>
             THEN \E order \in SortOrders(rows) :
                    fund' = <<[metric |-> m,
                               rows   |-> rows,
                               total  |-> TotalShares(rows),
                               avg    |-> WeightedMetric(rows),
                               top    |-> TopRows(rows, order)]>>
             ELSE fund' = <<>>
    /\ pc' = "asset"
    /\ UNCHANGED <<df, num_assets, rng, portfolio, data, returns, keyMetrics,
                   ticker_returns, asset, error, firstBuilt>>

(***************************************************************************)
(* Single-asset block (lines 143-171)                                      *)
(***************************************************************************)
RECURSIVE CumSum(_, _)
CumSum(x, acc) ==
    IF x = <<>> THEN <<>> ELSE <<acc + x[1]>> \o CumSum(Tail(x), acc + x[1])

Smallest(x) == CHOOSE v \in Range(x) : \A w \in Range(x) : v <= w

\* lines 158-161 on the NaN-free series x (a sequence of integers, units 1/SCALE)
AssetRisk(x) ==
    LET cells == [i \in 1..Len(x) |-> <<x[i]>>]
    IN  [sharpe |-> calculate_sharpe(cells, SCALE),
         var    |-> calculate_var(cells, CONFIDENCE_PCT),
         mdd    |-> IF x = <<>> THEN NaN ELSE <<Smallest(CumSum(x, 0))>>,
         n      |-> Len(x)]

\* lines 145-171 for the selected ticker; the else branch only warns
AssetAnalysis ==
    /\ pc = "asset"
    /\ \E sel \in Range(PortfolioTickers(portfolio)) :
         IF sel \in data.present
         THEN /\ ticker_returns' = Defined(returns.val[sel])
              /\ asset' = <<[ticker |-> sel, found |-> TRUE,
                             risk |-> AssetRisk(ticker_returns')]>>
         ELSE /\ ticker_returns' = ticker_returns
              /\ asset' = <<[ticker |-> sel, found |-> FALSE, risk |-> AssetRisk(<<>>)]>>
    /\ pc' = "done"
    /\ UNCHANGED <<df, num_assets, rng, portfolio, data, returns, keyMetrics,
                   fund, error, firstBuilt>>

\* line 159 on an empty series (a ticker with a single price): np.percentile of an
\* empty array raises in the numpy versions that do not answer NaN
AssetAnalysisRaises ==
    /\ pc = "asset"
    /\ \E sel \in Range(PortfolioTickers(portfolio)) :
         /\ sel \in data.present
         /\ Defined(returns.val[sel]) = <<>>
    /\ ticker_returns' = <<>>
    /\ pc' = "crashed"
    /\ error' = "IndexError"
    /\ UNCHANGED <<df, num_assets, rng, portfolio, data, returns, keyMetrics,
                   fund, asset, firstBuilt>>

\* the risk functions applied to a series given directly
ApplyRisk ==
    /\ pc = "risk"
    /\ asset' = <<[ticker |-> "", found |-> TRUE, risk |-> AssetRisk(ticker_returns)]>>
    /\ pc' = "done"
    /\ UNCHANGED <<df, num_assets, rng, portfolio, data, returns, keyMetrics,
                   fund, ticker_returns, error, firstBuilt>>

(***************************************************************************)
(* Specifications                                                          *)
(***************************************************************************)
Fresh ==
    /\ portfolio = <<>>
    /\ data = NoData
    /\ returns = NoReturns
    /\ keyMetrics = <<>>
    /\ fund = <<>>
    /\ ticker_returns = <<>>
    /\ asset = <<>>
    /\ error = ""
    /\ firstBuilt = <<>>

InitRngStates == {0, 12345}

\* the whole script on a table of 4 or 5 distinct tickers
RunCells == <<<<2>>, <<>>, <<1>>, <<2>>, <<1>>, <<3>>>>
RunTables ==
    {[i \in 1..n |-> RowOf(TickerOrder[i], RunCells[i])] : n \in (SLIDER_MIN - 1)..SLIDER_MIN}

Init ==
    /\ df \in RunTables
    /\ num_assets = SLIDER_DEFAULT
    /\ rng \in InitRngStates
    /\ pc = "build"
    /\ Fresh

Next ==
    \/ BuildPortfolio
    \/ BuildRaises
    \/ FetchMarketData
    \/ FetchRaises
    \/ KeyMetrics
    \/ Fundamentals
    \/ AssetAnalysis
    \/ AssetAnalysisRaises
    \/ Rerun

Spec == Init /\ [][Next]_vars

\* portfolio construction alone, on every table of up to MaxRows rows
InitBuild ==
    /\ df \in BuildTables
    /\ num_assets = SLIDER_DEFAULT
    /\ rng \in InitRngStates
    /\ pc = "build"
    /\ Fresh

NextBuild == BuildPortfolio \/ BuildRaises \/ Rerun

SpecBuild == InitBuild /\ [][NextBuild]_vars

\* the risk functions alone, on every series of up to MaxLen returns
ReturnValues == {-50, -20, 0, 10, 30}
SeriesSet == UNION {[1..n -> ReturnValues] : n \in 0..MaxLen}

InitRisk ==
    /\ df = <<>>
    /\ num_assets = SLIDER_DEFAULT
    /\ rng = 0
    /\ pc = "risk"
    /\ portfolio = <<>>
    /\ data = NoData
    /\ returns = NoReturns
    /\ keyMetrics = <<>>
    /\ fund = <<>>
    /\ ticker_returns \in SeriesSet
    /\ asset = <<>>
    /\ error = ""
    /\ firstBuilt = <<>>

NextRisk == ApplyRisk

SpecRisk == InitRisk /\ [][NextRisk]_vars

\* the fundamentals block alone, on portfolios of SLIDER_MIN holdings
MetricCells == {<<>>, <<1>>, <<2>>}
FundTables ==
    {[i \in 1..SLIDER_MIN |-> RowOf(TickerOrder[i], c[i])] : c \in [1..SLIDER_MIN -> MetricCells]}
HoldingOrders ==
    {[i \in 1..SLIDER_MIN |-> TickerOrder[i]],
     [i \in 1..SLIDER_MIN |-> TickerOrder[SLIDER_MIN + 1 - i]]}
ShareCounts ==
    {[i \in 1..SLIDER_MIN |-> SHARES_LOW],
     [i \in 1..SLIDER_MIN |-> SHARES_LOW * i]}
FundPortfolios ==
    {[i \in 1..SLIDER_MIN |-> [Ticker |-> o[i], Shares |-> sh[i], EntryPrice |-> 100 * PRICE_LOW]]
       : o \in HoldingOrders, sh \in ShareCounts}

InitFund ==
    /\ df \in FundTables
    /\ num_assets = SLIDER_MIN
    /\ rng = 0
    /\ pc = "fundamentals"
    /\ portfolio \in FundPortfolios
    /\ data = NoData
    /\ returns = NoReturns
    /\ keyMetrics = <<>>
    /\ fund = <<>>
    /\ ticker_returns = <<>>
    /\ asset = <<>>
    /\ error = ""
    /\ firstBuilt = <<>>

NextFund == Fundamentals

SpecFund == InitFund /\ [][NextFund]_vars

(***************************************************************************)
(* Properties                                                              *)
(***************************************************************************)
Requested == Range(PortfolioTickers(portfolio))

\* the download of this run has answered
Fetched == portfolio # <<>> /\ pc # "fetch" /\ error # "FetchFailed"

\* C1: a requested ticker absent from the response is left out of the returns
\* table and one present is kept, without an error; when every requested ticker
\* is absent the run stops with the no-data error and no statistic is computed
\* in that run.
C1_AbsentTickersDropped ==
    /\ (Fetched /\ error = "")
          => /\ Range(returns.cols) = Requested \cap data.present
             /\ \A t \in Requested \ data.present : t \notin DOMAIN returns.val
    /\ (Fetched /\ Requested \cap data.present = {})
          => pc = "stopped" /\ error = "NoData"
    /\ error = "NoData"
          => pc = "stopped" /\ keyMetrics = <<>> /\ fund = <<>> /\ asset = <<>>

C1_Witness ==
    /\ pc = "done"
    /\ Requested \ data.present # {}
    /\ Requested \cap data.present # {}
    /\ Range(returns.cols) = Requested \cap data.present
    /\ keyMetrics # <<>>

\* the returns table without its first row, the row of the undefined returns
DropFirstRow(r) ==
    [cols |-> r.cols,
     rows |-> r.rows - 1,
     val  |-> [t \in DOMAIN r.val |-> Tail(r.val[t])]]

\* C2: with at least 3 prices, the four portfolio statistics and the selected
\* ticker's statistics are those of the len-1 defined returns: the undefined
\* first return neither makes a statistic undefined nor counts as a zero.
C2_FirstReturnExcluded ==
    /\ (keyMetrics # <<>> /\ data.days >= 3)
          => keyMetrics[1] = KeyMetricsOf(DropFirstRow(returns))
    /\ (asset # <<>> /\ asset[1].found /\ data.days >= 3)
          => asset[1].risk =
                AssetRisk(Defined(Tail(returns.val[asset[1].ticker])))

\* C3: the Sharpe ratio of a series with zero standard deviation or fewer than 2
\* observations is NaN (or an error), never an infinity.
C3_SharpeNeverInfinite ==
    /\ keyMetrics # <<>> => keyMetrics[1].sharpe.kind # "inf"
    /\ (asset # <<>> /\ asset[1].found
          /\ (Len(ticker_returns) < 2 \/ VarNumer(ticker_returns) = 0))
          => asset[1].risk.sharpe.kind = "nan"

EqualShares(rows) == \A i, j \in 1..Len(rows) : rows[i].Shares = rows[j].Shares
NonNull(rows) == SelectSeq(rows, LAMBDA r : r.val # <<>>)
ValueSum(rows) == SumSeq([i \in 1..Len(rows) |-> rows[i].val[1]])
Reversed(s) == [i \in 1..Len(s) |-> s[Len(s) + 1 - i]]

\* C4: when all holdings have the same share count, the portfolio-weighted metric
\* is the arithmetic mean of the metric over the holdings whose value is not
\* null; and the weighted metric does not depend on the order of the holdings.
C4_EqualSharesGiveMean ==
    fund # <<>> =>
        /\ (EqualShares(fund[1].rows) /\ NonNull(fund[1].rows) # <<>>)
              => fund[1].avg.num * Len(NonNull(fund[1].rows))
                    = ValueSum(NonNull(fund[1].rows)) * fund[1].avg.den
        /\ LET other == WeightedMetric(Merge(Reversed(portfolio), df, fund[1].metric))
           IN  other.num * fund[1].avg.den = fund[1].avg.num * other.den

\* C5: the ranking has min(TOP_N, n) rows, by metric descending, and rows with
\* equal metric values are in ascending ticker order.
C5_TopRanked ==
    fund # <<>> =>
        LET top == fund[1].top
            n   == Len(fund[1].rows)
        IN  /\ Len(top) = IF n < TOP_N THEN n ELSE TOP_N
            /\ \A k, l \in 1..Len(top) :
                 (k < l /\ top[k].val # <<>> /\ top[l].val # <<>>)
                    => /\ top[k].val[1] >= top[l].val[1]
                       /\ top[k].val[1] = top[l].val[1]
                             => TickerRank(top[k].Ticker) < TickerRank(top[l].Ticker)

\* C6: in one process (one table, seed 42), every run with the same number of
\* assets builds the same portfolio as the first such run did, whatever the state
\* of the generator the earlier runs left.
C6_SamePortfolioEveryRun ==
    (portfolio # <<>> /\ firstBuilt # <<>> /\ firstBuilt[1].n = num_assets)
        => portfolio = firstBuilt[1].pf

C6_Witness ==
    /\ portfolio # <<>>
    /\ firstBuilt # <<>>
    /\ firstBuilt[1].n = num_assets
    /\ firstBuilt[1].again
    /\ rng # np_random_seed(rng, SEED)

\* C7: a built portfolio has exactly num_assets holdings, with pairwise distinct
\* tickers, each from the table's ticker column.
C7_DistinctTickers ==
    portfolio # <<>> =>
        /\ Len(portfolio) = num_assets
        /\ \A i \in 1..Len(portfolio) : portfolio[i].Ticker \in Range(TickerColumn(df))
        /\ \A i, j \in 1..Len(portfolio) :
              i # j => portfolio[i].Ticker # portfolio[j].Ticker

\* C8: when the requested number of assets exceeds the table's size (or is below
\* 1) the construction fails: the run ends there with the error, no portfolio,
\* not even a partial one, and no analytics.
C8_TooManyAssetsFails ==
    (pc # "build" /\ (num_assets > Len(df) \/ num_assets < 1))
        => /\ pc = "crashed"
           /\ error = "ValueError"
           /\ portfolio = <<>>
           /\ returns = NoReturns
           /\ keyMetrics = <<>>
           /\ fund = <<>>
           /\ asset = <<>>

C8_Witness ==
    /\ pc = "crashed"
    /\ error = "ValueError"
    /\ num_assets > Len(df)
    /\ num_assets <= SLIDER_MAX
    /\ firstBuilt # <<>>

\* the k-th smallest entry of x, by counting (no sorting involved)
OrderStatistic(x, k) ==
    CHOOSE v \in Range(x) :
        /\ Cardinality({i \in 1..Len(x) : x[i] < v}) < k
        /\ Cardinality({i \in 1..Len(x) : x[i] <= v}) >= k

\* 100 * the value at fractional rank (1 - conf/100) * (n - 1), 0-based, between
\* adjacent order statistics
InterpolatedRank(x, conf) ==
    LET r  == (100 - conf) * (Len(x) - 1)
        lo == r \div 100
        f  == r % 100
    IN  IF f = 0 THEN 100 * OrderStatistic(x, lo + 1)
        ELSE (100 - f) * OrderStatistic(x, lo + 1) + f * OrderStatistic(x, lo + 2)

ExampleReturns == <<-50, -20, 0, 10, 30>>

\* C9: calculate_var is the (1 - confidence) percentile by linear interpolation
\* between the adjacent order statistics at rank (1 - confidence) * (n - 1), the
\* same for every order of the series; on [-0.05, -0.02, 0.00, 0.01, 0.03] at
\* 0.95 it is -0.044.
C9_VarIsInterpolatedPercentile ==
    (pc = "done" /\ asset # <<>> /\ ticker_returns # <<>>) =>
        /\ asset[1].risk.var.kind = "num"
        /\ asset[1].risk.var.num = InterpolatedRank(ticker_returns, CONFIDENCE_PCT)
        /\ asset[1].risk.var = AssetRisk(Reversed(ticker_returns)).var
        /\ Range(ticker_returns) = Range(ExampleReturns) /\ Len(ticker_returns) = 5
              => asset[1].risk.var.num * 1000 = (0 - 44) * 100 * SCALE

C9_Witness ==
    /\ pc = "done"
    /\ asset # <<>>
    /\ ticker_returns = <<10, -50, 30, 0, -20>>
    /\ asset[1].risk.var.num = 0 - 4400
    /\ asset[1].risk.var.den = 100

\* the portfolios with the tickers of pf and other share counts and entry prices
Reshared(pf) ==
    {[i \in 1..Len(pf) |->
        [Ticker |-> pf[i].Ticker, Shares |-> sh[i], EntryPrice |-> 100 * PRICE_HIGH - pf[i].EntryPrice]]
       : sh \in [1..Len(pf) -> {SHARES_LOW, SHARES_HIGH - 1}]}

TotalOf(pf) == SumSeq([i \in 1..Len(pf) |-> pf[i].Shares])

\* C10: the four portfolio statistics are the same for every portfolio with the
\* same tickers and the same price data, whatever its share counts and entry
\* prices (while its fundamentals weights, shares over total shares, differ);
\* stated of the metrics as the key-metrics block leaves them.
C10_RiskIgnoresShares ==
    (pc = "fundamentals" /\ keyMetrics # <<>>) =>
        \A alt \in Reshared(portfolio) :
            KeyMetricsOf(ComputeReturns(alt, data)) = keyMetrics[1]

C10_Witness ==
    /\ pc = "fundamentals"
    /\ keyMetrics # <<>>
    /\ keyMetrics[1].ret.kind = "num"
    /\ keyMetrics[1].vol.kind = "num"
    /\ keyMetrics[1].vol.num > 0
    /\ Len(returns.cols) >= 2
    /\ \E alt \in Reshared(portfolio) :
          /\ alt[1].Shares * TotalOf(portfolio) # portfolio[1].Shares * TotalOf(alt)
          /\ KeyMetricsOf(ComputeReturns(alt, data)) = keyMetrics[1]

====
